---------------------------- MODULE Spec2Model ----------------------------
(***************************************************************************)
(* A model of src/main.rs: the UEFI boot stub that locates the Graphics    *)
(* Output Protocol, fills the framebuffer with one colour and halts.       *)
(*                                                                         *)
(* Memory is modelled byte by byte (x86_64, little endian).  The firmware  *)
(* is the environment: its answer to locate_protocol (a status and, on     *)
(* success, a mode descriptor) is fixed in the initial state.              *)
(***************************************************************************)
EXTENDS Integers, Sequences, FiniteSets

(***************************************************************************)
(* Bounds of the model.                                                    *)
(***************************************************************************)
\* Largest frame_buffer_size (bytes) the firmware reports.
MaxFbBytes == 18
\* Status values 0 .. MaxStatus are returned by the firmware; every value
\* other than 0 stands for a non-success EFI status.
MaxStatus == 2
\* The number of hlt instructions counted before the counter saturates.
MaxHlt == 2

(***************************************************************************)
(* Constants of the program.                                               *)
(***************************************************************************)
\* enum EfiStatus { Success = 0 }
Success == 0
\* null_mut(): pointers to firmware interfaces are symbolic, "null" or the
\* name of the interface.
NULL == "null"
\* size_of::<u32>()
SizeOfU32 == 4
\* The value stored into every element of vram.
PixelColor == \hff0000

EFI_GRAPHICS_OUTPUT_PROTOCOL_GUID ==
    \* data0 is the 32-bit value 0x9042a9de, kept as its two 16-bit halves
    \* (high, low).
    [data0 |-> <<\h9042, \ha9de>>,
     data1 |-> \h23dc,
     data2 |-> \h4a38,
     data3 |-> <<\h96, \hfb, \h7a, \hde, \hd0, \h80, \h51, \h6a>>]

(***************************************************************************)
(* #[repr(C)] layout.  A structure is the sequence of its fields, each     *)
(* with its size and alignment in bytes (u64, usize, references and        *)
(* function pointers: 8 and 8; u32: 4 and 4; an array [T; n]: n times the  *)
(* size of T, the alignment of T).                                         *)
(***************************************************************************)
Field(n, s, a) == [name |-> n, size |-> s, align |-> a]

EfiBootServicesTable ==
    << Field("_reserved0", 8 * 40, 8),
       Field("locate_protocol", 8, 8) >>

\* Mutant: one reserved u64 too few before boot_services.
EfiSystemTable_ShortReserved ==
    << Field("_reserved0", 8 * 11, 8),
       Field("boot_services", 8, 8) >>

EfiSystemTable ==
    << Field("_reserved0", 8 * 12, 8),
       Field("boot_services", 8, 8) >>

EfiGraphicsOutputProtocolPixelInfo ==
    << Field("version", 4, 4),
       Field("horizontal_resolution", 4, 4),
       Field("vertical_resolution", 4, 4),
       Field("_padding0", 4 * 5, 4),
       Field("pixels_per_scan_line", 4, 4) >>

AlignUp(n, a) == ((n + a - 1) \div a) * a

\* The offset of field number k: the end of field k - 1 rounded up to the
\* alignment of field k.
RECURSIVE FieldOffset(_, _)
FieldOffset(fields, k) ==
    IF k = 1 THEN 0
    ELSE AlignUp(FieldOffset(fields, k - 1) + fields[k - 1].size,
                 fields[k].align)

RECURSIVE MaxAlign(_, _)
MaxAlign(fields, k) ==
    IF k = 0 THEN 1
    ELSE LET m == MaxAlign(fields, k - 1)
         IN  IF fields[k].align > m THEN fields[k].align ELSE m

offset_of(fields, n) ==
    FieldOffset(fields, CHOOSE k \in 1..Len(fields) : fields[k].name = n)

size_of(fields) ==
    AlignUp(FieldOffset(fields, Len(fields)) + fields[Len(fields)].size,
            MaxAlign(fields, Len(fields)))

(***************************************************************************)
(* Memory.                                                                 *)
(***************************************************************************)
\* The lowest address of the modelled window of physical memory (0x1000).
MemOrigin == \h1000
\* The window: room for the largest framebuffer, and one more pixel of
\* memory behind it.
Addrs == MemOrigin .. MemOrigin + MaxFbBytes + SizeOfU32 - 1
\* Addresses at which a framebuffer can start.
FbAddrs == MemOrigin .. MemOrigin + MaxFbBytes

\* What a read through a pointer the firmware never set can yield: any
\* descriptor whose region is inside the window, aligned or not.
StrayModes ==
    { m \in [frame_buffer_base : FbAddrs, frame_buffer_size : 0..MaxFbBytes] :
        m.frame_buffer_base + m.frame_buffer_size <= MemOrigin + MaxFbBytes }

\* The mode descriptors (frame_buffer_base, frame_buffer_size) a firmware
\* that found the protocol reports: as the stray ones, with the base aligned
\* for u32 (slice::from_raw_parts_mut requires it).
Modes == { m \in StrayModes : m.frame_buffer_base % SizeOfU32 = 0 }

\* The locals of efi_main before they are assigned.
NoMode == [frame_buffer_base |-> 0, frame_buffer_size |-> 0]

\* The initial contents of memory: byte a holds v + s * (a - MemOrigin).
InitBytes == {\h00, \h5a, \hff}
InitStrides == {0, 1, 7}
InitMems ==
    { [a \in Addrs |-> (v + s * (a - MemOrigin)) % 256] :
        v \in InitBytes, s \in InitStrides }

\* The four bytes of a u32 in memory, lowest address first.
U32Bytes(v) ==
    << v % 256, (v \div 256) % 256, (v \div 65536) % 256,
       (v \div 16777216) % 256 >>

\* The bytes a store to the u32 at address a touches.
ElemBytes(a) == a .. a + SizeOfU32 - 1

\* Mutant: the store done as a u64, which clears the four bytes that follow.
StoreU32_AsU64(m, a, v) ==
    [x \in DOMAIN m |->
        IF x \in a .. a + 3 THEN U32Bytes(v)[x - a + 1]
        ELSE IF x \in a + 4 .. a + 7 THEN 0 ELSE m[x]]

\* *e = v for the u32 at address a.
StoreU32(m, a, v) ==
    [x \in DOMAIN m |->
        IF x \in ElemBytes(a) THEN U32Bytes(v)[x - a + 1] ELSE m[x]]

\* Mutant: the length rounded up, so that a trailing partial pixel is
\* written too.
SliceLen_RoundUp(vram_byte_size) ==
    (vram_byte_size + SizeOfU32 - 1) \div SizeOfU32

\* vram_byte_size / size_of::<u32>()
SliceLen(vram_byte_size) == vram_byte_size \div SizeOfU32

\* Mutant: elements two bytes apart (a u16 stride).
ElemAddr_HalfStride(vram_addr, k) == vram_addr + 2 * k

\* The address of element k (from 0) of the slice at vram_addr.
ElemAddr(vram_addr, k) == vram_addr + SizeOfU32 * k

\* Mutant: *e ^= 0xff0000, which flips the third byte instead of setting it.
WriteElem_Xor(m, a) == [m EXCEPT ![a + 2] = 255 - @]

\* The body of the fill loop for one element.
WriteElem(m, a) == StoreU32(m, a, PixelColor)

\* The whole loop `for e in vram { *e = 0xff0000 }` from element k on.
RECURSIVE FillFrom(_, _, _, _)
FillFrom(m, vram_addr, len, k) ==
    IF k >= len THEN m
    ELSE FillFrom(WriteElem(m, ElemAddr(vram_addr, k)), vram_addr, len, k + 1)

Fill(m, vram_addr, len) == FillFrom(m, vram_addr, len, 0)

(***************************************************************************)
(* State.                                                                  *)
(***************************************************************************)
VARIABLES
    pc,           \* where control is
    mem,          \* physical memory, byte by byte
    mem0,         \* memory as it was when efi_main was entered (history)
    fw_status,    \* firmware: the status locate_protocol will return
    fw_mode,      \* firmware: the mode descriptor of its Graphics Output Protocol
    calls,        \* the locate_protocol invocations so far, with their arguments
    offsets,      \* the byte offsets of the table fields read so far
    status,       \* locate_graphic_protocol: status
    graphic_output_protocol,  \* locate_graphic_protocol: the output slot
    ret,          \* what locate_graphic_protocol returned: "None" until it returns
    panic_site,   \* the function that panicked, "None" if none did
    mode,         \* efi_main: the mode descriptor read through the protocol
    vram_addr,    \* efi_main: vram_addr
    vram_byte_size,  \* efi_main: vram_byte_size
    vram_len,     \* efi_main: vram.len()
    idx,          \* efi_main: the position of the loop in vram
    written,      \* the addresses of the bytes stored to so far (history)
    hlts          \* the hlt instructions issued so far, saturating at MaxHlt

vars == << pc, mem, mem0, fw_status, fw_mode, calls, offsets, status,
           graphic_output_protocol, ret, panic_site, mode, vram_addr,
           vram_byte_size, vram_len, idx, written, hlts >>

env == << mem0, fw_status, fw_mode >>
locals == << mode, vram_addr, vram_byte_size, vram_len, idx >>

Init ==
    /\ pc = "Start"
    /\ mem \in InitMems
    /\ mem0 = mem
    /\ fw_status \in 0 .. MaxStatus
    /\ fw_mode \in (IF fw_status = Success THEN Modes ELSE {NoMode})
    /\ calls = << >>
    /\ offsets = << >>
    /\ status = Success
    /\ graphic_output_protocol = NULL
    /\ ret = "None"
    /\ panic_site = "None"
    /\ mode = NoMode
    /\ vram_addr = 0
    /\ vram_byte_size = 0
    /\ vram_len = 0
    /\ idx = 0
    /\ written = {}
    /\ hlts = 0

(***************************************************************************)
(* locate_graphic_protocol                                                 *)
(***************************************************************************)
\* The arguments of the call of locate_protocol.
LocateArgs ==
    [protocol |-> EFI_GRAPHICS_OUTPUT_PROTOCOL_GUID,
     registration |-> NULL,
     interface |-> "graphic_output_protocol"]

\* Mutant: the call is made a second time (a retry).
CallsAfter_Retry(cs) == cs \o << LocateArgs, LocateArgs >>

\* The invocations of locate_protocol after one more.
CallsAfter(cs) == Append(cs, LocateArgs)

\* The table fields read to reach the function pointer:
\* efi_system_table.boot_services, then .locate_protocol.
TableReads ==
    << offset_of(EfiSystemTable, "boot_services"),
       offset_of(EfiBootServicesTable, "locate_protocol") >>

\* let mut graphic_output_protocol = null_mut(); let status = (...)(...);
\* The firmware stores the interface into the slot only when it succeeds.
CallLocateProtocol ==
    /\ pc = "Start"
    /\ offsets' = offsets \o TableReads
    /\ calls' = CallsAfter(calls)
    /\ status' = fw_status
    /\ graphic_output_protocol' = (IF fw_status = Success THEN "gop" ELSE NULL)
    /\ pc' = "Called"
    /\ UNCHANGED << mem, env, ret, panic_site, locals, written, hlts >>

\* The values `status != EfiStatus::Success` can take.  EfiStatus has the
\* single variant Success = 0, so a status other than 0 is not a value of
\* the type: the comparison derived for a one-variant enum need not look at
\* it at all, and the test may come out either way.
StatusNe(s) == IF s = Success THEN {FALSE} ELSE {TRUE, FALSE}

\* Mutant: the commented-out `return Err(...)` in place of the panic!.
OnFailure_ReturnErr ==
    /\ pc' = "Returned"
    /\ panic_site' = panic_site
    /\ ret' = "Err"

\* What the panic branch of locate_graphic_protocol does:
\* panic!(...), the `return Err(...)` being commented out.
OnFailure ==
    /\ pc' = "Fatal"
    /\ panic_site' = "locate_graphic_protocol"
    /\ ret' = ret

\* if status != EfiStatus::Success { panic!(..) }  Ok(unsafe { &*slot })
CheckStatus ==
    /\ pc = "Called"
    /\ \E ne \in StatusNe(status) :
         IF ne
         THEN OnFailure
         ELSE /\ ret' = "Ok"
              /\ panic_site' = panic_site
              /\ pc' = "Returned"
    /\ UNCHANGED << mem, env, calls, offsets, status,
                    graphic_output_protocol, locals, written, hlts >>

(***************************************************************************)
(* efi_main                                                                *)
(***************************************************************************)
\* .unwrap(): an Err panics in efi_main, an Ok yields the reference.
Unwrap ==
    /\ pc = "Returned"
    /\ IF ret = "Err"
       THEN /\ pc' = "Fatal"
            /\ panic_site' = "efi_main"
       ELSE /\ pc' = "ProtocolResolved"
            /\ panic_site' = panic_site
    /\ UNCHANGED << mem, env, calls, offsets, status,
                    graphic_output_protocol, ret, locals, written, hlts >>

\* What .mode read through the reference yields: the firmware's descriptor
\* when the slot was set, anything when it was not.
ModeThrough(p) == IF p = "gop" THEN {fw_mode} ELSE StrayModes

\* vram_addr, vram_byte_size and the slice vram.
MakeSlice ==
    /\ pc = "ProtocolResolved"
    /\ \E m \in ModeThrough(graphic_output_protocol) :
         /\ mode' = m
         /\ vram_addr' = m.frame_buffer_base
         /\ vram_byte_size' = m.frame_buffer_size
         /\ vram_len' = SliceLen(m.frame_buffer_size)
    /\ idx' = 0
    /\ pc' = "Fill"
    /\ UNCHANGED << mem, env, calls, offsets, status,
                    graphic_output_protocol, ret, panic_site, written, hlts >>

\* One iteration of `for e in vram { *e = 0xff0000; }`.
FillStep ==
    /\ pc = "Fill"
    /\ idx < vram_len
    /\ mem' = WriteElem(mem, ElemAddr(vram_addr, idx))
    /\ written' = written \cup ElemBytes(ElemAddr(vram_addr, idx))
    /\ idx' = idx + 1
    /\ UNCHANGED << pc, env, calls, offsets, status, graphic_output_protocol,
                    ret, panic_site, mode, vram_addr, vram_byte_size,
                    vram_len, hlts >>

\* Mutant: the loop is left before the iterator is exhausted.
FillExit_Early ==
    /\ pc = "Fill"
    /\ pc' = "FramebufferFilled"
    /\ UNCHANGED << mem, env, calls, offsets, status, graphic_output_protocol,
                    ret, panic_site, locals, written, hlts >>

\* The iterator is exhausted: the loop is left.
FillExit ==
    /\ pc = "Fill"
    /\ idx >= vram_len
    /\ pc' = "FramebufferFilled"
    /\ UNCHANGED << mem, env, calls, offsets, status, graphic_output_protocol,
                    ret, panic_site, locals, written, hlts >>

\* Mutant: a single hlt() and then the end of efi_main, back to the firmware.
AfterHlt_Return == "ReturnedToFirmware"

\* Where control is after hlt() returns: in `loop { hlt() }`, again.
AfterHlt == "Halted"

\* loop { hlt() }: one hlt instruction.
Hlt ==
    /\ pc \in {"FramebufferFilled", "Halted"}
    /\ hlts' = (IF hlts < MaxHlt THEN hlts + 1 ELSE hlts)
    /\ pc' = AfterHlt
    /\ UNCHANGED << mem, env, calls, offsets, status, graphic_output_protocol,
                    ret, panic_site, locals, written >>

\* #[panic_handler] fn panic: loop {}
Spin ==
    /\ pc = "Fatal"
    /\ UNCHANGED vars

Next ==
    \/ CallLocateProtocol
    \/ CheckStatus
    \/ Unwrap
    \/ MakeSlice
    \/ FillStep
    \/ FillExit
    \/ Hlt
    \/ Spin

Spec == Init /\ [][Next]_vars

\* The processor keeps executing instructions: a step that is possible is
\* eventually taken.
FairSpec == Init /\ [][Next]_vars /\ WF_vars(Next)

(***************************************************************************)
(* The claims.  Their formulas spell out the numbers of the specification  *)
(* (4 bytes per pixel, the colour 0x00FF0000 as its bytes in memory)       *)
(* instead of reusing the definitions above.                               *)
(***************************************************************************)
\* The firmware's lookup succeeds in this execution.
SuccessPath == fw_status = 0

\* The bytes of the N \div 4 whole pixels of the region (base, N).
PixelBytes(base, n) == base .. base + 4 * (n \div 4) - 1

\* The bytes of the region (base, N) behind its last whole pixel.
TrailingBytes(base, n) == base + 4 * (n \div 4) .. base + n - 1

\* The pixel at address a holds 0x00FF0000.
HoldsColor(m, a) ==
    /\ m[a] = \h00
    /\ m[a + 1] = \h00
    /\ m[a + 2] = \hff
    /\ m[a + 3] = \h00

\* The fill loop has been entered.
LoopEntered == pc \in {"Fill", "FramebufferFilled", "Halted"}

\* The fill loop has been left.
LoopDone == pc \in {"FramebufferFilled", "Halted"}

\* C1 (as stated): whenever the firmware's locate_protocol returns a status
\* other than 0, the fill loop is never entered and the framebuffer memory
\* keeps its initial contents in every reachable state.
C1_NoWriteOnFailure ==
    (fw_status # 0) =>
        /\ ~LoopEntered
        /\ written = {}
        /\ mem = mem0

C3_StateInv ==
    /\ LoopEntered =>
          /\ vram_len = mode.frame_buffer_size \div 4
          /\ idx <= vram_len
          /\ written \subseteq
                 PixelBytes(mode.frame_buffer_base, mode.frame_buffer_size)
          /\ \A a \in Addrs \
                 PixelBytes(mode.frame_buffer_base, mode.frame_buffer_size) :
                 mem[a] = mem0[a]
    /\ LoopDone =>
          /\ idx = mode.frame_buffer_size \div 4
          /\ written =
                 PixelBytes(mode.frame_buffer_base, mode.frame_buffer_size)
    /\ ~LoopEntered => (written = {} /\ mem = mem0)

C3_Step ==
    LET elem == mode.frame_buffer_base + 4 * idx ..
                mode.frame_buffer_base + 4 * idx + 3
    IN  IF pc = "Fill" /\ idx' = idx + 1
        THEN /\ \A a \in Addrs \ elem : mem'[a] = mem[a]
             /\ written' \ written \subseteq elem
             /\ HoldsColor(mem', mode.frame_buffer_base + 4 * idx)
        ELSE mem' = mem /\ written' = written

\* C3: the pixel sequence of a descriptor (base, N) has N \div 4 elements,
\* the store to element i changes no byte outside
\* [base + 4 i, base + 4 i + 4), and no byte outside
\* [base, base + 4 (N \div 4)) is ever stored to or changed.
C3_PixelSequence == []C3_StateInv /\ [][C3_Step]_vars

C3_Witness ==
    /\ pc = "Halted"
    /\ mode.frame_buffer_size = 15
    /\ Cardinality(written) = 12
    /\ \A a \in Addrs : mem0[a] = \h5a

\* C4: when frame_buffer_size is not a multiple of 4, the 1 to 3 bytes at
\* [base + 4 (N \div 4), base + N) keep their initial values in every
\* reachable state, the halted ones included.
C4_TrailingBytesKept ==
    (mode.frame_buffer_size % 4 # 0) =>
        \A a \in TrailingBytes(mode.frame_buffer_base,
                               mode.frame_buffer_size) :
            /\ mem[a] = mem0[a]
            /\ a \notin written

C4_Witness ==
    /\ pc = "Halted"
    /\ hlts >= 1
    /\ SuccessPath
    /\ mode.frame_buffer_size = 7
    /\ written # {}
    /\ \A a \in TrailingBytes(mode.frame_buffer_base, 7) : mem[a] = \h5a

\* C5: the fill is idempotent: from every initial memory and every
\* descriptor, filling a second time leaves the memory the first fill left.
\* The first fill is the loop of the program, the second the same loop
\* applied to the memory it left.
C5_FillIdempotent ==
    /\ LoopEntered =>
          LET once == Fill(mem0, vram_addr, vram_len)
          IN  Fill(once, vram_addr, vram_len) = once
    /\ LoopDone =>
          /\ mem = Fill(mem0, vram_addr, vram_len)
          /\ Fill(mem, vram_addr, vram_len) = mem

C5_Witness ==
    /\ pc = "FramebufferFilled"
    /\ vram_len >= 2
    /\ mem # mem0
    /\ Fill(mem, vram_addr, vram_len) = mem

\* The two states the program ends in.
Terminal == {"Halted", "Fatal"}

\* C6: every execution eventually is in Halted or in Fatal; once in one of
\* them it stays there: no step leaves it, none leads from one to the
\* other, and control is never back in the firmware.
C6_Diverges ==
    /\ <>(pc \in Terminal)
    /\ [][(pc \in Terminal) => (pc' = pc)]_vars
    /\ [](pc \in {"Start", "Called", "Returned", "ProtocolResolved", "Fill",
                  "FramebufferFilled", "Halted", "Fatal"})

C6_Witness == pc = "Halted" /\ hlts >= 2

C8_Layout ==
    /\ offset_of(EfiSystemTable, "boot_services") = 96
    /\ offset_of(EfiBootServicesTable, "locate_protocol") = 320
    /\ size_of(EfiGraphicsOutputProtocolPixelInfo) = 36
    /\ offsets = (IF pc = "Start" THEN << >> ELSE << 96, 320 >>)

C8_Witness == pc = "Called" /\ offsets = << 96, 320 >>

\* The states of the entry point's state machine, numbered in their order
\* (Start 0, ProtocolResolved 1, FramebufferFilled 2, Halted 3), and the
\* state part and the step part of C9.
Rank ==
    CASE pc \in {"Start", "Called", "Returned"} -> 0
      [] pc \in {"ProtocolResolved", "Fill"} -> 1
      [] pc = "FramebufferFilled" -> 2
      [] pc = "Halted" -> 3
      [] OTHER -> 4

C9_StateInv ==
    /\ Rank \in 0 .. 3
    /\ written # {} =>
          /\ Rank >= 1
          /\ status = 0
          /\ ret = "Ok"
          /\ Len(calls) = 1
    /\ LoopEntered => mode = fw_mode
    /\ (hlts > 0 \/ Rank >= 2) =>
          /\ idx = fw_mode.frame_buffer_size \div 4
          /\ written = PixelBytes(fw_mode.frame_buffer_base,
                                  fw_mode.frame_buffer_size)
    /\ hlts > 0 <=> Rank = 3

C9_Step ==
    /\ Rank' \in {Rank, Rank + 1}
    /\ Rank = 3 => (mem' = mem /\ written' = written)

\* C9: on the success path the states Start, ProtocolResolved,
\* FramebufferFilled and Halted are passed in this order, none skipped or
\* revisited, and Halted is reached; nothing is stored before the lookup has
\* returned Success, the first hlt is issued after the last element has
\* been written, and nothing is stored once Halted.
C9_SuccessOrder ==
    /\ [](SuccessPath => C9_StateInv)
    /\ [][SuccessPath => C9_Step]_vars
    /\ SuccessPath => <>(pc = "Halted")

C9_Witness ==
    /\ SuccessPath
    /\ pc = "Halted"
    /\ hlts >= 2
    /\ vram_len >= 2
    /\ mem # mem0

\* The one call the program is to make, written out.
GraphicsOutputCall ==
    [protocol |->
        [data0 |-> << 36930, 43486 >>,
         data1 |-> 9180,
         data2 |-> 19000,
         data3 |-> << 150, 251, 122, 222, 208, 128, 81, 106 >>],
     registration |-> "null",
     interface |-> "graphic_output_protocol"]

\* C10: locate_protocol is invoked exactly once in every execution, with
\* the Graphics Output identifier {0x9042a9de, 0x23dc, 0x4a38, [0x96, 0xfb,
\* 0x7a, 0xde, 0xd0, 0x80, 0x51, 0x6a]}, a null registration and the output
\* slot, and never a second time, whether it succeeded or failed.
C10_CalledOnce ==
    /\ [](calls = (IF pc = "Start" THEN << >> ELSE << GraphicsOutputCall >>))
    /\ <>[](Len(calls) = 1)

C10_Witness ==
    /\ pc = "Fatal"
    /\ fw_status # 0
    /\ calls = << GraphicsOutputCall >>

=============================================================================
